---------------------------- MODULE Spec2Model ----------------------------
(***************************************************************************)
(* Model of package input, file lang.go: the language catalog (langs,      *)
(* langExts), the catalog queries (Langs, getLangByExt, langIsSupported)   *)
(* and the directory language detector (DetectDirLang).                    *)
(*                                                                         *)
(* Go strings are TLA+ strings; a character is a string of length one.     *)
(* A Go map is a function whose DOMAIN is the set of keys present; every   *)
(* `range` over a map visits the keys in an order chosen step by step,     *)
(* nondeterministically (Go leaves the order unspecified).                 *)
(***************************************************************************)
EXTENDS Integers, Sequences, FiniteSets, TLC

VARIABLES
    pc,        \* position of the caller: "idle", or inside/after one call
    arg,       \* argument of the call in progress
    fs,        \* DetectDirLang: the listing returned by ioutil.ReadDir
    i,         \* DetectDirLang: index of the next entry of fs (1-based)
    langsMap,  \* DetectDirLang: language -> number of files
    ranged,    \* keys already visited by the `range` in progress
    best,      \* DetectDirLang: the locals lang and cnt of lines 143-144
    ext,       \* getLangByExt: its local ext after line 161
    lookups,   \* DetectDirLang: calls of getLangByExt made so far
    ret        \* the value(s) returned by the call that just finished

vars == <<pc, arg, fs, i, langsMap, ranged, best, ext, lookups, ret>>

---------------------------------------------------------------------------
(* Strings *)

Ch(s, k) == SubSeq(s, k, k)

UpperCase == "ABCDEFGHIJKLMNOPQRSTUVWXYZ"

LowerCase == "abcdefghijklmnopqrstuvwxyz"

ToLowerCh(c) ==
    IF \E k \in 1..Len(UpperCase) : Ch(UpperCase, k) = c
    THEN Ch(LowerCase, CHOOSE k \in 1..Len(UpperCase) : Ch(UpperCase, k) = c)
    ELSE c

RECURSIVE ToLowerFrom(_, _)
ToLowerFrom(s, k) ==
    IF k > Len(s) THEN "" ELSE ToLowerCh(Ch(s, k)) \o ToLowerFrom(s, k + 1)

ToLowerIdentity(s) == s

\* strings.ToLower, for the ASCII names and extensions of the model
ToLower(s) == ToLowerFrom(s, 1)

\* filepath.Ext: the suffix beginning at the final dot, "" if there is none
\* (f.Name() is a base name: it holds no path separator)
RECURSIVE ExtFrom(_, _)
ExtFrom(s, k) ==
    IF k = 0 THEN ""
    ELSE IF Ch(s, k) = "." THEN SubSeq(s, k, Len(s))
    ELSE ExtFrom(s, k - 1)

Ext(s) == ExtFrom(s, Len(s))

HasPrefix(s, p) == p = "" \/ (Len(p) <= Len(s) /\ SubSeq(s, 1, Len(p)) = p)

---------------------------------------------------------------------------
(* The catalog *)

blockTypeString == "string"

blockTypeSComment == "scomment"

blockTypeMComment == "mcomment"

\* a *block literal; fields left out in the source are Go's zero value ""
block(type, begin, end, escape) ==
    [Type |-> type, Begin |-> begin, End |-> end, Escape |-> escape]

cStyle == <<
    block(blockTypeString, "\"", "\"", "\\"),
    block(blockTypeSComment, "//", "", ""),
    block(blockTypeMComment, "/*", "*/", "") >>

\* the grave accent (U+0060) delimiting Go's raw strings; a TLA+ string cannot
\* hold that character, so a character no other delimiter uses stands for it
backquote == "~"

goBlocks == <<
    block(blockTypeString, "\"", "\"", "\\"),
    block(blockTypeString, backquote, backquote, ""),
    block(blockTypeSComment, "//", "", ""),
    block(blockTypeMComment, "/*", "*/", "") >>

javascriptBlocks == <<
    block(blockTypeString, "\"", "\"", "\\"),
    block(blockTypeString, "'", "'", "\\"),
    block(blockTypeSComment, "//", "", ""),
    block(blockTypeMComment, "/*", "*/", ""),
    block(blockTypeString, "/", "/", "\\") >>

perlBlocks == <<
    block(blockTypeString, "\"", "\"", "\\"),
    block(blockTypeString, "'", "'", "\\"),
    block(blockTypeSComment, "#", "", ""),
    block(blockTypeMComment, "\n=pod\n", "\n=cut\n", "") >>

pythonBlocks == <<
    block(blockTypeString, "\"", "\"", "\\"),
    block(blockTypeSComment, "#", "", "") >>

phpBlocks == <<
    block(blockTypeString, "\"", "\"", "\\"),
    block(blockTypeString, "'", "'", "\\"),
    block(blockTypeSComment, "//", "", ""),
    block(blockTypeMComment, "/*", "*/", "") >>

rubyBlocks == <<
    block(blockTypeString, "\"", "\"", "\\"),
    block(blockTypeString, "'", "'", "\\"),
    block(blockTypeSComment, "#", "", ""),
    block(blockTypeMComment, "\n=begin\n", "\n=end\n", "") >>

\* javascript with the regular-expression rule declared first
javascriptRegexFirst == <<
    block(blockTypeString, "/", "/", "\\"),
    block(blockTypeString, "\"", "\"", "\\"),
    block(blockTypeString, "'", "'", "\\"),
    block(blockTypeSComment, "//", "", ""),
    block(blockTypeMComment, "/*", "*/", "") >>

langsRegexFirst ==
    [l \in {"c#", "c++", "go", "java", "javascript", "perl", "python", "php",
            "ruby", "rust", "swift"} |->
        CASE l = "go" -> goBlocks
          [] l = "javascript" -> javascriptRegexFirst
          [] l = "perl" -> perlBlocks
          [] l = "python" -> pythonBlocks
          [] l = "php" -> phpBlocks
          [] l = "ruby" -> rubyBlocks
          [] OTHER -> cStyle]

\* langs with a language that langExts does not know
langsExtraKey ==
    [l \in {"c#", "c++", "go", "java", "javascript", "lua", "perl", "python",
            "php", "ruby", "rust", "swift"} |->
        CASE l = "go" -> goBlocks
          [] l = "javascript" -> javascriptBlocks
          [] l = "lua" -> << >>
          [] l = "perl" -> perlBlocks
          [] l = "python" -> pythonBlocks
          [] l = "php" -> phpBlocks
          [] l = "ruby" -> rubyBlocks
          [] OTHER -> cStyle]

langs ==
    [l \in {"c#", "c++", "go", "java", "javascript", "perl", "python", "php",
            "ruby", "rust", "swift"} |->
        CASE l = "c#" -> cStyle
          [] l = "c++" -> cStyle
          [] l = "go" -> goBlocks
          [] l = "java" -> cStyle
          [] l = "javascript" -> javascriptBlocks
          [] l = "perl" -> perlBlocks
          [] l = "python" -> pythonBlocks
          [] l = "php" -> phpBlocks
          [] l = "ruby" -> rubyBlocks
          [] l = "rust" -> cStyle
          [] l = "swift" -> cStyle]

\* langExts with ".h" declared by two languages
langExtsOverlap ==
    [l \in {"c#", "c++", "go", "java", "javascript", "perl", "php", "python",
            "ruby", "rust", "swift"} |->
        CASE l = "c#" -> <<".cs">>
          [] l = "c++" -> <<".h", ".c", ".cpp", ".cxx", "hpp">>
          [] l = "go" -> <<".go">>
          [] l = "java" -> <<".java">>
          [] l = "javascript" -> <<".js">>
          [] l = "perl" -> <<".perl", ".prl", ".pl">>
          [] l = "php" -> <<".php">>
          [] l = "python" -> <<".py">>
          [] l = "ruby" -> <<".rb">>
          [] l = "rust" -> <<".rs">>
          [] l = "swift" -> <<".swift", ".h">>]

langExts ==
    [l \in {"c#", "c++", "go", "java", "javascript", "perl", "php", "python",
            "ruby", "rust", "swift"} |->
        CASE l = "c#" -> <<".cs">>
          [] l = "c++" -> <<".h", ".c", ".cpp", ".cxx", "hpp">>
          [] l = "go" -> <<".go">>
          [] l = "java" -> <<".java">>
          [] l = "javascript" -> <<".js">>
          [] l = "perl" -> <<".perl", ".prl", ".pl">>
          [] l = "php" -> <<".php">>
          [] l = "python" -> <<".py">>
          [] l = "ruby" -> <<".rb">>
          [] l = "rust" -> <<".rs">>
          [] l = "swift" -> <<".swift">>]

\* lines 163-167: the inner loop `for _, elem := range exts`
InExts(exts, e) == \E k \in 1..Len(exts) : exts[k] = e

\* getLangByExt as a value: the set of strings the function can return for e,
\* one for each language the outer `range langExts` can reach first
getLangByExt(e) ==
    LET lower == ToLower(e)
        owners == {l \in DOMAIN langExts : InExts(langExts[l], lower)}
    IN  IF owners = {} THEN {""} ELSE owners

\* lines 173-177
langIsSupported(lang) == lang \in DOMAIN langs

\* the text scanner tries the rules in list order and commits to the first
\* whose Begin matches at the current position: the index of that rule, 0 if
\* no rule matches
firstMatch(rules, text) ==
    IF \E k \in 1..Len(rules) : HasPrefix(text, rules[k].Begin)
    THEN CHOOSE k \in 1..Len(rules) :
            /\ HasPrefix(text, rules[k].Begin)
            /\ \A j \in 1..(k - 1) : ~HasPrefix(text, rules[j].Begin)
    ELSE 0

---------------------------------------------------------------------------
(* Inputs *)

\* most entries of a generated directory listing
MaxEntries == 6

RECURSIVE ToUpperFrom(_, _)
ToUpperFrom(s, k) ==
    IF k > Len(s) THEN ""
    ELSE LET c == Ch(s, k)
         IN  (IF \E j \in 1..Len(LowerCase) : Ch(LowerCase, j) = c
              THEN Ch(UpperCase, CHOOSE j \in 1..Len(LowerCase) : Ch(LowerCase, j) = c)
              ELSE c) \o ToUpperFrom(s, k + 1)

ToUpper(s) == ToUpperFrom(s, 1)

\* s, s in upper case, and s with only its last character in upper case
CaseVariants(s) ==
    IF Len(s) < 2 THEN {s, ToUpper(s)}
    ELSE {s, ToUpper(s), SubSeq(s, 1, Len(s) - 1) \o ToUpper(Ch(s, Len(s)))}

CatalogExts == UNION {{langExts[l][k] : k \in 1..Len(langExts[l])} : l \in DOMAIN langExts}

ExtInputs == UNION {CaseVariants(e) : e \in CatalogExts \cup {".hpp", ".xyz", ".", ""}}

LangInputs == UNION {CaseVariants(l) : l \in DOMAIN langs \cup {"cobol", ""}}

TextInputs ==
    {"//c", "/*c*/", "/re/", "\"s\"", "'s'", "#c", backquote \o "raw" \o backquote,
     "\n=pod\n", "\n=begin\n", "x", "/", "*/", ""}

\* an os.FileInfo, as far as DetectDirLang reads it: Name() and IsDir()
FileInfo(name, isDir) == [name |-> name, isDir |-> isDir]

\* entries of the generated listings, in the order of their names (ReadDir
\* returns a listing sorted by file name)
CoreEntries == <<
    FileInfo("A.GO", FALSE), FileInfo("a.go", FALSE), FileInfo("b.go", FALSE),
    FileInfo("c.go", FALSE), FileInfo("d.py", FALSE), FileInfo("e.py", FALSE),
    FileInfo("f.xyz", FALSE), FileInfo("g.hpp", FALSE), FileInfo("h.js", TRUE),
    FileInfo("i", FALSE) >>

RECURSIVE ListingFrom(_, _)
ListingFrom(S, k) ==
    IF k > Len(CoreEntries) THEN << >>
    ELSE (IF k \in S THEN <<CoreEntries[k]>> ELSE << >>) \o ListingFrom(S, k + 1)

CoreDirs ==
    {ListingFrom(S, 1) : S \in {T \in SUBSET (1..Len(CoreEntries)) : Cardinality(T) <= MaxEntries}}

\* directories holding one entry, a file or a subdirectory, for every extension
SingleDirs == {<<FileInfo("x" \o e, d)>> : e \in ExtInputs, d \in BOOLEAN}

Dirs == CoreDirs \cup SingleDirs

Nil == "<nil>"

\* errors.New of lines 140 and 155
ErrNoLang == "no supported-language files in this directory"

\* what ioutil.ReadDir(dir) finds: the directory's content, and the error it
\* returns (Nil when the directory can be listed)
DirInputs ==
    {[content |-> d, err |-> Nil] : d \in Dirs}
        \cup {[content |-> d, err |-> "permission denied"] : d \in Dirs}
        \cup {[content |-> << >>, err |-> "no such file or directory"]}

---------------------------------------------------------------------------
(* State *)

emptyMap == [k \in {} |-> 0]

NoBest == [lang |-> "", cnt |-> 0]

Init ==
    /\ pc = "idle"
    /\ arg = ""
    /\ fs = << >>
    /\ i = 0
    /\ langsMap = emptyMap
    /\ ranged = {}
    /\ best = NoBest
    /\ ext = ""
    /\ lookups = 0
    /\ ret = ""

---------------------------------------------------------------------------
(* DetectDirLang, lines 119-156 *)

errIgnored(err) == FALSE

\* line 121: err != nil
failed(err) == err # Nil

isDirIgnored(f) == FALSE

\* line 128: f.IsDir()
isDir(f) == f.isDir

incrOverwrites(m, l) == IF l \in DOMAIN m THEN [m EXCEPT ![l] = 1] ELSE m @@ (l :> 1)

\* line 135: langsMap[lang]++ (a key not in the map counts from zero)
incr(m, l) == IF l \in DOMAIN m THEN [m EXCEPT ![l] = @ + 1] ELSE m @@ (l :> 1)

pickKeepsCnt(b, k, v) == IF v >= b.cnt THEN [lang |-> k, cnt |-> b.cnt] ELSE b

\* lines 146-149: the body of the selection loop, on the locals lang and cnt
pick(b, k, v) == IF v >= b.cnt THEN [lang |-> k, cnt |-> v] ELSE b

\* lines 119-126: the call, ioutil.ReadDir, and the return on its error
DetectDirLang_ReadDir(d) ==
    /\ pc = "idle"
    /\ arg' = d
    /\ IF failed(d.err)
       THEN /\ ret' = [lang |-> "", err |-> d.err]
            /\ pc' = "DetectDirLang"
            /\ UNCHANGED <<fs, i, langsMap>>
       ELSE /\ fs' = IF d.err = Nil THEN d.content ELSE << >>
            /\ langsMap' = emptyMap
            /\ i' = 1
            /\ pc' = "tally"
            /\ UNCHANGED ret
    /\ UNCHANGED <<ranged, best, ext, lookups>>

\* lines 127-137: one iteration of `for _, f := range fs`, or its end
DetectDirLang_Tally ==
    /\ pc = "tally"
    /\ IF i > Len(fs)
       THEN /\ pc' = "tallied"
            /\ UNCHANGED <<i, langsMap, lookups>>
       ELSE /\ i' = i + 1
            /\ pc' = "tally"
            /\ IF isDir(fs[i])
               THEN UNCHANGED <<langsMap, lookups>>
               ELSE /\ lookups' = lookups + 1
                    /\ \E lang \in getLangByExt(ToLower(Ext(fs[i].name))) :
                          langsMap' = IF Len(lang) > 0 THEN incr(langsMap, lang)
                                      ELSE langsMap
    /\ UNCHANGED <<arg, fs, ranged, best, ext, ret>>

\* lines 139-144: the return on an empty tally, else lang := "", cnt := 0
DetectDirLang_IsEmpty ==
    /\ pc = "tallied"
    /\ IF Cardinality(DOMAIN langsMap) = 0
       THEN /\ ret' = [lang |-> "", err |-> ErrNoLang]
            /\ pc' = "DetectDirLang"
            /\ UNCHANGED <<best, ranged>>
       ELSE /\ best' = NoBest
            /\ ranged' = {}
            /\ pc' = "select"
            /\ UNCHANGED ret
    /\ UNCHANGED <<arg, fs, i, langsMap, ext, lookups>>

\* lines 145-156: one iteration of `for k, v := range langsMap` on a key the
\* range has not visited yet, or, after the last one, the return
DetectDirLang_Select ==
    /\ pc = "select"
    /\ IF ranged = DOMAIN langsMap
       THEN /\ ret' = IF Len(best.lang) > 0
                      THEN [lang |-> best.lang, err |-> Nil]
                      ELSE [lang |-> "", err |-> ErrNoLang]
            /\ pc' = "DetectDirLang"
            /\ UNCHANGED <<best, ranged>>
       ELSE /\ \E k \in DOMAIN langsMap \ ranged :
                  /\ best' = pick(best, k, langsMap[k])
                  /\ ranged' = ranged \cup {k}
            /\ pc' = "select"
            /\ UNCHANGED ret
    /\ UNCHANGED <<arg, fs, i, langsMap, ext, lookups>>

---------------------------------------------------------------------------
(* getLangByExt, lines 160-170 *)

\* line 161, on the call
getLangByExt_Call(e) ==
    /\ pc = "idle"
    /\ arg' = e
    /\ ext' = ToLower(e)
    /\ ranged' = {}
    /\ pc' = "range"
    /\ UNCHANGED <<fs, i, langsMap, best, lookups, ret>>

\* lines 162-169: one iteration of `for lang, exts := range langExts` on a
\* key the range has not visited yet, or, after the last one, return ""
getLangByExt_Range ==
    /\ pc = "range"
    /\ IF ranged = DOMAIN langExts
       THEN /\ ret' = ""
            /\ pc' = "getLangByExt"
            /\ UNCHANGED ranged
       ELSE \E lang \in DOMAIN langExts \ ranged :
               IF InExts(langExts[lang], ext)
               THEN /\ ret' = lang
                    /\ pc' = "getLangByExt"
                    /\ UNCHANGED ranged
               ELSE /\ ranged' = ranged \cup {lang}
                    /\ pc' = "range"
                    /\ UNCHANGED ret
    /\ UNCHANGED <<arg, fs, i, langsMap, best, ext, lookups>>

---------------------------------------------------------------------------
(* Langs, langIsSupported, and the scanner's choice of a rule *)

\* lines 107-114: every key of langs, once (the order of the slice, left
\* unspecified by the range, is not kept)
Langs_Call ==
    /\ pc = "idle"
    /\ ret' = {l : l \in DOMAIN langs}
    /\ pc' = "Langs"
    /\ UNCHANGED <<arg, fs, i, langsMap, ranged, best, ext, lookups>>

\* lines 173-177
langIsSupported_Call(lang) ==
    /\ pc = "idle"
    /\ arg' = lang
    /\ ret' = langIsSupported(lang)
    /\ pc' = "langIsSupported"
    /\ UNCHANGED <<fs, i, langsMap, ranged, best, ext, lookups>>

\* the scanner, at a position where `text` begins, in a file of language lang
Scan(lang, text) ==
    /\ pc = "idle"
    /\ arg' = [lang |-> lang, text |-> text]
    /\ ret' = firstMatch(langs[lang], text)
    /\ pc' = "Scan"
    /\ UNCHANGED <<fs, i, langsMap, ranged, best, ext, lookups>>

\* the caller goes on; nothing of a call is kept for the next one
Return ==
    /\ pc \in {"DetectDirLang", "getLangByExt", "Langs", "langIsSupported", "Scan"}
    /\ pc' = "idle"
    /\ arg' = ""
    /\ fs' = << >>
    /\ i' = 0
    /\ langsMap' = emptyMap
    /\ ranged' = {}
    /\ best' = NoBest
    /\ ext' = ""
    /\ lookups' = 0
    /\ ret' = ""

Next ==
    \/ \E d \in DirInputs : DetectDirLang_ReadDir(d)
    \/ DetectDirLang_Tally
    \/ DetectDirLang_IsEmpty
    \/ DetectDirLang_Select
    \/ \E e \in ExtInputs : getLangByExt_Call(e)
    \/ getLangByExt_Range
    \/ Langs_Call
    \/ \E lang \in LangInputs : langIsSupported_Call(lang)
    \/ \E lang \in DOMAIN langs, text \in TextInputs : Scan(lang, text)
    \/ Return

Spec == Init /\ [][Next]_vars

---------------------------------------------------------------------------
(* Properties *)

InDetectDirLang == pc \in {"tally", "tallied", "select", "DetectDirLang"}

\* a read of a Go map: the zero value for a key that is not present
count(m, l) == IF l \in DOMAIN m THEN m[l] ELSE 0

\* entry f of a listing is a file whose lower-cased extension language l declares
Resolves(f, l) == ~f.isDir /\ InExts(langExts[l], ToLower(Ext(f.name)))

\* the number of entries of the listing that resolve to language l
Tally(l) == Cardinality({k \in 1..Len(fs) : Resolves(fs[k], l)})

\* the language declaring exactly the extension e, "" if there is none
ExactOwner(e) ==
    LET owners == {l \in DOMAIN langExts : InExts(langExts[l], e)}
    IN  IF owners = {} THEN "" ELSE CHOOSE l \in owners : TRUE

\* the listing of 3 .go files, 2 .py files and 1 .xyz file
Example321 == ListingFrom({2, 3, 4, 5, 6, 7}, 1)

\* The step-by-step scan of getLangByExt returns only values of the set the
\* detector draws from.
LookupAgrees == pc = "getLangByExt" => ret \in getLangByExt(arg)

\* C1: whenever the listing holds a file with a recognized extension,
\* DetectDirLang returns no error and a language no other language out-counts,
\* in whatever order the tally is enumerated; 3 .go, 2 .py and 1 .xyz give "go".
C1_MaxTally ==
    (pc = "DetectDirLang" /\ arg.err = Nil
        /\ \E l \in DOMAIN langExts : Tally(l) > 0)
    => /\ ret.err = Nil
       /\ ret.lang \in DOMAIN langExts
       /\ \A l \in DOMAIN langExts : Tally(l) <= Tally(ret.lang)
       /\ (fs = Example321 => ret.lang = "go")

C1_Witness ==
    /\ pc = "DetectDirLang"
    /\ fs = Example321
    /\ ret = [lang |-> "go", err |-> Nil]

HasSuffix(s, x) ==
    x = "" \/ (Len(x) <= Len(s) /\ SubSeq(s, Len(s) - Len(x) + 1, Len(s)) = x)

\* C2: for every (language, extension) pair of langExts, a directory holding
\* exactly one regular file whose name ends in that extension makes
\* DetectDirLang return that language.
C2_RoundTrip ==
    (pc = "DetectDirLang" /\ arg.err = Nil /\ Len(fs) = 1 /\ ~fs[1].isDir)
    => \A l \in DOMAIN langExts : \A k \in 1..Len(langExts[l]) :
          HasSuffix(fs[1].name, langExts[l][k])
          => ret = [lang |-> l, err |-> Nil]

\* C3: a readable directory none of whose entries resolves to a language makes
\* DetectDirLang return "" and the not-found error; and the returned language
\* is non-empty exactly when the returned error is nil.
C3_NotFound ==
    pc = "DetectDirLang"
    => /\ (arg.err = Nil /\ \A l \in DOMAIN langExts : Tally(l) = 0)
          => ret = [lang |-> "", err |-> ErrNoLang]
       /\ (ret.lang # "") <=> (ret.err = Nil)

C3_Witness ==
    /\ pc = "DetectDirLang"
    /\ arg.err = Nil
    /\ fs = <<FileInfo("x.go", TRUE)>>
    /\ ret = [lang |-> "", err |-> ErrNoLang]

\* C4: when the listing fails, DetectDirLang returns "" and that very error,
\* never the not-found error, having examined no entry and looked up no
\* extension.
C4_IOError ==
    (InDetectDirLang /\ arg.err # Nil)
    => /\ pc = "DetectDirLang"
       /\ ret = [lang |-> "", err |-> arg.err]
       /\ ret.err # ErrNoLang
       /\ i = 0
       /\ lookups = 0
       /\ fs = << >>
       /\ langsMap = emptyMap

C4_Witness ==
    /\ pc = "DetectDirLang"
    /\ arg = [content |-> Example321, err |-> "permission denied"]
    /\ ret = [lang |-> "", err |-> "permission denied"]

\* C5: langs and langExts have the same keys, every language Langs() returns
\* has a non-empty rule list, and every extension langExts lists for a language
\* resolves through getLangByExt to that language.
KeysAgree == DOMAIN langs = DOMAIN langExts

C5_TablesAgree ==
    /\ pc \in {"Langs", "getLangByExt"} => KeysAgree
    /\ pc = "Langs"
       => \A l \in ret : /\ langIsSupported(l)
                         /\ l \in DOMAIN langExts
                         /\ Len(langs[l]) > 0
    /\ pc = "getLangByExt"
       => \A l \in DOMAIN langExts : InExts(langExts[l], arg) => ret = l

C5_Witness ==
    /\ pc = "getLangByExt"
    /\ arg = "hpp"
    /\ ret = "c++"

\* C6: no two languages of langExts declare the same extension, and
\* getLangByExt returns, in whatever order langExts is enumerated, the one
\* result its (lower-cased) argument determines.
ExtsDisjoint ==
    \A l1, l2 \in DOMAIN langExts :
        l1 # l2 => ~\E e \in CatalogExts : InExts(langExts[l1], e) /\ InExts(langExts[l2], e)

C6_Deterministic ==
    pc = "getLangByExt" => ExtsDisjoint /\ ret = ExactOwner(ext)

\* the owner found after every other language was visited first
C6_Witness ==
    /\ pc = "getLangByExt"
    /\ arg = ".h"
    /\ ret = "c++"
    /\ ranged = DOMAIN langExts \ {"c++"}

\* the catalog's (language, extension) pairs, the extension in upper case
UpperExts ==
    UNION {{<<l, ToUpper(langExts[l][k])>> : k \in 1..Len(langExts[l])} :
              l \in DOMAIN langExts}

\* the languages declaring an extension that differs from e at most in case
FoldOwners(e) ==
    LET upper == ToUpper(e) IN {l \in DOMAIN langExts : <<l, upper>> \in UpperExts}

\* for every extension given to getLangByExt, the result that its case-folded
\* spelling determines
FoldResults ==
    {<<e, IF FoldOwners(e) = {} THEN "" ELSE CHOOSE l \in FoldOwners(e) : TRUE>> :
        e \in ExtInputs}

\* C7: getLangByExt returns the same result for an extension and for every
\* upper/lower-case variant of it, and DetectDirLang counts a file whatever the
\* case of its extension.
C7_CaseInsensitive ==
    /\ pc = "getLangByExt" => <<arg, ret>> \in FoldResults
    /\ pc = "tallied"
       => \A l \in DOMAIN langExts :
             count(langsMap, l) =
                Cardinality({k \in 1..Len(fs) :
                                ~fs[k].isDir /\ l \in FoldOwners(Ext(fs[k].name))})

C7_Witness ==
    /\ pc = "getLangByExt"
    /\ arg = ".GO"
    /\ ret = "go"

\* C8: the lookup of a language name gives, for a name that differs from a
\* catalog key only in letter case, the answer it gives for the lower-case key.
C8_NameCaseInsensitive ==
    pc = "langIsSupported" => ret = langIsSupported(ToLower(arg))

\* C9: when the tallying loop ends, the count of each language is the number of
\* non-directory entries whose lower-cased extension the language declares;
\* directories are never looked up, and an entry counts for one language at most.
C9_TallyExact ==
    pc = "tallied"
    => /\ DOMAIN langsMap \subseteq DOMAIN langExts
       /\ \A l \in DOMAIN langExts : count(langsMap, l) = Tally(l)
       /\ \A k \in 1..Len(fs) :
             Cardinality({l \in DOMAIN langExts : Resolves(fs[k], l)}) <= 1
       /\ lookups = Cardinality({k \in 1..Len(fs) : ~fs[k].isDir})

C9_Witness ==
    /\ pc = "tallied"
    /\ fs = ListingFrom({1, 2, 5, 7, 8, 9}, 1)
    /\ langsMap = ("go" :> 2) @@ ("python" :> 1)

IsProperPrefix(p, s) == Len(p) < Len(s) /\ HasPrefix(s, p)

PrefixesLater ==
    \A l \in DOMAIN langs : \A a, b \in 1..Len(langs[l]) :
        IsProperPrefix(langs[l][a].Begin, langs[l][b].Begin) => b < a

\* C10: in every rule list a rule whose Begin is a proper prefix of another
\* rule's Begin comes after that rule, so the first rule that matches is never
\* a prefix of a longer one that matches; at "//" and at "/*" a javascript
\* scanner commits to the comment rule, not to the regular-expression rule.
C10_Precedence ==
    pc = "Scan"
    => LET rules == langs[arg.lang]
           matching == {k \in 1..Len(rules) : HasPrefix(arg.text, rules[k].Begin)}
       IN  /\ PrefixesLater
           /\ ret = 0 <=> matching = {}
           /\ ret # 0 => /\ ret \in matching
                         /\ \A k \in matching :
                               Len(rules[k].Begin) <= Len(rules[ret].Begin)
           /\ (arg.lang = "javascript" /\ HasPrefix(arg.text, "//"))
                 => rules[ret].Type = blockTypeSComment
           /\ (arg.lang = "javascript" /\ HasPrefix(arg.text, "/*"))
                 => rules[ret].Type = blockTypeMComment

C10_Witness ==
    /\ pc = "Scan"
    /\ arg = [lang |-> "javascript", text |-> "//c"]
    /\ ret = 3

=============================================================================
